---- MODULE Spec2Model ----
(***************************************************************************)
(* Model of the incident recorder of app.py: POST /problems stores a       *)
(* request's headers and JSON body with a fingerprint, POST /find scans    *)
(* the stored incidents for key/value matches, GET /find2 looks incidents  *)
(* up by fingerprint.                                                      *)
(*                                                                         *)
(* JSON values are tagged records.  A mapping is a sequence of <<key,      *)
(* value>> pairs with distinct keys: a Python dict keeps its insertion     *)
(* order, and json.dumps (without sort_keys), str() and .items() all       *)
(* follow that order.  Texts (JSON text, str() output, the hashed string)  *)
(* are strings built by concatenation.  SHA-256 is idealised as a          *)
(* collision-free function: a digest is represented by the text that was   *)
(* hashed.                                                                 *)
(***************************************************************************)
EXTENDS Integers, Sequences, FiniteSets, TLC

VARIABLES store, reqlog, resp, call

vars == <<store, reqlog, resp, call>>

\* Largest number of incidents recorded in a run.
MaxStore == 2

-----------------------------------------------------------------------------
(* JSON values as Python holds them after request.get_json() / json.loads *)

MkStr(s) == [t |-> "str", s |-> s]
MkInt(n) == [t |-> "int", n |-> n]
MkBool(b) == [t |-> "bool", b |-> b]
MkNull == [t |-> "null"]
MkList(xs) == [t |-> "list", xs |-> xs]
MkDict(kv) == [t |-> "dict", kv |-> kv]

IsDict(v) == v.t = "dict"

Keys(d) == {d.kv[i][1] : i \in DOMAIN d.kv}

HasKey(d, k) == k \in Keys(d)

\* d[k] for a key the mapping holds
Get(d, k) == d.kv[CHOOSE i \in DOMAIN d.kv : d.kv[i][1] = k][2]

\* Python truthiness, as `x or {}` and `if not x` evaluate it
Truthy(v) ==
    CASE v.t = "str" -> v.s # ""
      [] v.t = "int" -> v.n # 0
      [] v.t = "bool" -> v.b
      [] v.t = "null" -> FALSE
      [] v.t = "list" -> Len(v.xs) > 0
      [] v.t = "dict" -> Len(v.kv) > 0

\* The keys the model uses, in code point order (the order Python compares
\* strings in, and so the order sort_keys=True puts keys in).  Upper case
\* letters come before lower case ones.
KeyOrder == <<"Id", "X-A", "a", "b", "id", "n", "value", "x-a">>

KeyRank(k) == CHOOSE i \in DOMAIN KeyOrder : KeyOrder[i] = k

\* str.lower() on header names
Lower(k) ==
    CASE k = "Id" -> "id"
      [] k = "X-A" -> "x-a"
      [] OTHER -> k

RemoveAt(s, i) == [j \in 1..(Len(s) - 1) |-> IF j < i THEN s[j] ELSE s[j + 1]]

RECURSIVE JoinStr(_, _)
JoinStr(parts, sep) ==
    IF Len(parts) = 0 THEN ""
    ELSE IF Len(parts) = 1 THEN parts[1]
    ELSE parts[1] \o sep \o JoinStr(Tail(parts), sep)

RECURSIVE SortPairs(_)
SortPairs(kv) ==
    IF kv = <<>> THEN <<>>
    ELSE LET i == CHOOSE i \in DOMAIN kv :
                      \A j \in DOMAIN kv : KeyRank(kv[i][1]) <= KeyRank(kv[j][1])
         IN  <<kv[i]>> \o SortPairs(RemoveAt(kv, i))

DictItems_InsertionOrder(kv, sort_keys) == kv

\* The order json.dumps writes a mapping's items in
DictItems(kv, sort_keys) == IF sort_keys THEN SortPairs(kv) ELSE kv

\* json.dumps(v, sort_keys=sort_keys, separators=(isep, ksep))
RECURSIVE JsonDumps(_, _, _, _)
JsonDumps(v, sort_keys, isep, ksep) ==
    CASE v.t = "str" -> "\"" \o v.s \o "\""
      [] v.t = "int" -> ToString(v.n)
      [] v.t = "bool" -> IF v.b THEN "true" ELSE "false"
      [] v.t = "null" -> "null"
      [] v.t = "list" ->
            "[" \o JoinStr([i \in DOMAIN v.xs |->
                              JsonDumps(v.xs[i], sort_keys, isep, ksep)], isep)
                \o "]"
      [] v.t = "dict" ->
            LET items == DictItems(v.kv, sort_keys)
            IN  "{" \o JoinStr([i \in DOMAIN items |->
                                  "\"" \o items[i][1] \o "\"" \o ksep
                                  \o JsonDumps(items[i][2], sort_keys, isep, ksep)],
                               isep)
                \o "}"

\* repr(v), which str() uses for the elements of a list or a dict
RECURSIVE Repr(_)
Repr(v) ==
    CASE v.t = "str" -> "'" \o v.s \o "'"
      [] v.t = "int" -> ToString(v.n)
      [] v.t = "bool" -> IF v.b THEN "True" ELSE "False"
      [] v.t = "null" -> "None"
      [] v.t = "list" ->
            "[" \o JoinStr([i \in DOMAIN v.xs |-> Repr(v.xs[i])], ", ") \o "]"
      [] v.t = "dict" ->
            "{" \o JoinStr([i \in DOMAIN v.kv |->
                              "'" \o v.kv[i][1] \o "': " \o Repr(v.kv[i][2])], ", ")
                \o "}"

\* str(v)
Str(v) == IF v.t = "str" THEN v.s ELSE Repr(v)

\* hashlib.sha256(text).hexdigest(), idealised as collision-free
Sha256Hex(text) == text

create_hash(headers, body) ==
    LET headers_sorted == IF IsDict(headers)
                          THEN JsonDumps(headers, TRUE, ",", ":")
                          ELSE Str(headers)
        body_sorted == IF IsDict(body)
                       THEN JsonDumps(body, TRUE, ",", ":")
                       ELSE Str(body)
        combined == headers_sorted \o body_sorted
    IN  Sha256Hex(combined)

-----------------------------------------------------------------------------
(* Requests *)

\* request.headers.items(): the header fields in arrival order.  The framework
\* reads them from the WSGI environment, one entry per field name, so no two
\* names of one request differ only in case; names arrive capitalised and
\* values are strings.
HdrA == <<"X-A", MkStr("1")>>
HdrId == <<"Id", MkStr("abc")>>

RequestHeaders == { <<HdrA>>, <<HdrId, HdrA>>, <<HdrA, HdrId>> }

BodyAbc == MkDict(<< <<"id", MkStr("abc")>>, <<"value", MkInt(100)>> >>)
BodyAbcSwapped == MkDict(<< <<"value", MkInt(100)>>, <<"id", MkStr("abc")>> >>)
BodyNested ==
    MkDict(<< <<"n", MkDict(<< <<"id", MkStr("abc")>>, <<"b", MkInt(1)>> >>)>> >>)
BodyNestedSwapped ==
    MkDict(<< <<"n", MkDict(<< <<"b", MkInt(1)>>, <<"id", MkStr("abc")>> >>)>> >>)
BodyList == MkList(<< MkDict(<< <<"b", MkInt(1)>>, <<"a", MkInt(2)>> >>) >>)
BodyListSwapped == MkList(<< MkDict(<< <<"a", MkInt(2)>>, <<"b", MkInt(1)>> >>) >>)
BodyNumber == MkInt(5)
BodyEmptyList == MkList(<<>>)

\* request.get_json() of the requests POSTed to /problems
MappingBodies == {BodyAbc, BodyAbcSwapped, BodyNested, BodyNestedSwapped}

RequestBodies == MappingBodies \cup {BodyList, BodyListSwapped, BodyNumber, BodyEmptyList}

\* The (headers, body) pairs POSTed to /problems
Requests ==
    (RequestHeaders \X {BodyAbc, BodyAbcSwapped})
      \cup ({<<HdrA>>} \X (RequestBodies \ {BodyAbc, BodyAbcSwapped}))

\* request.get_json() of the requests POSTed to /find: mappings of terms, in
\* the order the client wrote them, or nothing
SearchBodies ==
    { MkNull,
      MkDict(<<>>),
      MkDict(<< <<"id", MkStr("abc")>> >>),
      MkDict(<< <<"value", MkStr("100")>> >>),
      MkDict(<< <<"id", MkStr("zzz")>>, <<"value", MkInt(100)>> >>),
      MkDict(<< <<"x-a", MkInt(1)>>, <<"b", MkInt(1)>> >>),
      MkDict(<< <<"b", MkInt(1)>>, <<"x-a", MkInt(1)>> >>),
      MkDict(<< <<"n", MkDict(<< <<"id", MkStr("abc")>>, <<"b", MkInt(1)>> >>)>> >>) }

\* request.args.get('h'): absent, or the string given
NoArg == [present |-> FALSE, value |-> ""]
Arg(s) == [present |-> TRUE, value |-> s]

-----------------------------------------------------------------------------
(* POST /problems *)

\* d[k] = v on a dict: a new key goes last, a known key keeps its place
DictSet(kv, k, v) ==
    IF \E i \in DOMAIN kv : kv[i][1] = k
    THEN [i \in DOMAIN kv |-> IF kv[i][1] = k THEN <<k, v>> ELSE kv[i]]
    ELSE Append(kv, <<k, v>>)

RECURSIVE LowerItems(_, _)
LowerItems(items, acc) ==
    IF items = <<>> THEN acc
    ELSE LowerItems(Tail(items), DictSet(acc, Lower(items[1][1]), items[1][2]))

LowerHeaders_KeepCase(items) == MkDict(items)

\* {k.lower(): v for k, v in request.headers.items()}
LowerHeaders(items) == MkDict(LowerItems(items, <<>>))

\* request.get_json() or {}
BodyOrEmpty(json) == IF Truthy(json) THEN json ELSE MkDict(<<>>)

\* The autoincrement primary key: no row is ever deleted, so the next id is
\* one more than the number of rows.
NextId(st) == Len(st) + 1

NewIncident_ReuseId(st, headers, body, hash_value) ==
    [id |-> 1,
     headers |-> JsonDumps(headers, FALSE, ", ", ": "),
     body |-> JsonDumps(body, FALSE, ", ", ": "),
     hash_value |-> hash_value]

\* Incident(headers=json.dumps(headers), body=json.dumps(body), hash_value=...)
NewIncident(st, headers, body, hash_value) ==
    [id |-> NextId(st),
     headers |-> JsonDumps(headers, FALSE, ", ", ": "),
     body |-> JsonDumps(body, FALSE, ", ", ": "),
     hash_value |-> hash_value]

\* db.session.add(incident); db.session.commit()
DbAdd(st, incident) == Append(st, incident)

NoResponse ==
    [op |-> "none", status |-> 0, terms |-> MkNull, h |-> NoArg, hash |-> "",
     results |-> <<>>, error |-> "", queried |-> FALSE]

ProblemsPost(items, json) ==
    /\ Len(store) < MaxStore
    /\ LET headers == LowerHeaders(items)
           body == BodyOrEmpty(json)
           hash_value == create_hash(headers, body)
           incident == NewIncident(store, headers, body, hash_value)
       IN  /\ store' = DbAdd(store, incident)
           /\ reqlog' = Append(reqlog, [headers |-> items, body |-> json,
                                        hash |-> hash_value])
           /\ resp' = [NoResponse EXCEPT !.op = "problems", !.status = 200,
                                         !.hash = hash_value]
    /\ UNCHANGED call

-----------------------------------------------------------------------------
(* Reading stored incidents back *)

\* Everything json.dumps ever writes to the headers and body columns
StoredValues ==
    {LowerHeaders(items) : items \in RequestHeaders}
      \cup {BodyOrEmpty(json) : json \in RequestBodies}

\* The JSON text json.dumps(v) writes for each of them
StoredText == [v \in StoredValues |-> JsonDumps(v, FALSE, ", ", ": ")]

\* json.loads(text): the value whose JSON text (as json.dumps wrote it, keys
\* in their written order) is `text`
JsonLoads(text) == CHOOSE v \in StoredValues : StoredText[v] = text

\* One element of a response's 'results' list
Render(incident) ==
    [id |-> incident.id,
     headers |-> JsonLoads(incident.headers),
     body |-> JsonLoads(incident.body),
     hash |-> incident.hash_value]

\* Incident.query.all(): the rows in primary key order, the order the default
\* backend scans an unsorted table in
QueryAll(st) == st

FilterByHash_NoFilter(st, hash_param) == st

\* Incident.query.filter_by(hash_value=hash_param).all()
FilterByHash(st, hash_param) ==
    SelectSeq(st, LAMBDA incident : incident.hash_value = hash_param)

-----------------------------------------------------------------------------
(* POST /find *)

\* One pass of the inner loop's condition for the term (key, value): "hit"
\* when it is true, "miss" when it is false, "raise" when evaluating it throws
\* TypeError.  `or` evaluates the body test only when the headers test is
\* false.  A list body makes `key in body` a membership test and then
\* body[key] throws; a number or boolean body makes `key in body` throw.
\* (A falsy body is never stored, and string bodies are not among the inputs.)
TermOutcome(headers, body, key, value) ==
    IF HasKey(headers, key) /\ Str(Get(headers, key)) = Str(value) THEN "hit"
    ELSE CASE body.t = "dict" ->
                IF HasKey(body, key) /\ Str(Get(body, key)) = Str(value)
                THEN "hit" ELSE "miss"
           [] body.t = "list" ->
                IF \E i \in DOMAIN body.xs : body.xs[i] = MkStr(key)
                THEN "raise" ELSE "miss"
           [] body.t \in {"int", "bool"} -> "raise"

\* for key, value in search_data.items(): ... match = True; break
RECURSIVE MatchTerms(_, _, _)
MatchTerms(headers, body, items) ==
    IF items = <<>> THEN "miss"
    ELSE LET outcome == TermOutcome(headers, body, items[1][1], items[1][2])
         IN  IF outcome = "miss" THEN MatchTerms(headers, body, Tail(items))
             ELSE outcome

MatchIncident_EmptyMatchesAll(headers, body, search_data) ==
    IF search_data.kv = <<>> THEN "hit"
    ELSE MatchTerms(headers, body, search_data.kv)

\* match = False, then the loop over the terms
MatchIncident(headers, body, search_data) ==
    MatchTerms(headers, body, search_data.kv)

\* for incident in incidents: ... results.append(...)
RECURSIVE FindLoop(_, _, _)
FindLoop(incidents, search_data, results) ==
    IF incidents = <<>> THEN [raised |-> FALSE, results |-> results]
    ELSE LET incident == Head(incidents)
             headers == JsonLoads(incident.headers)
             body == JsonLoads(incident.body)
             match == MatchIncident(headers, body, search_data)
         IN  IF match = "raise" THEN [raised |-> TRUE, results |-> <<>>]
             ELSE FindLoop(Tail(incidents), search_data,
                           IF match = "hit"
                           THEN Append(results, Render(incident))
                           ELSE results)

\* FindResource.post; an uncaught exception becomes the framework's 500
FindResponse(st, json) ==
    LET search_data == BodyOrEmpty(json)
        incidents == QueryAll(st)
        out == FindLoop(incidents, search_data, <<>>)
    IN  IF out.raised
        THEN [NoResponse EXCEPT !.op = "find", !.status = 500, !.terms = search_data,
                                !.error = "TypeError", !.queried = TRUE]
        ELSE [NoResponse EXCEPT !.op = "find", !.status = 200, !.terms = search_data,
                                !.results = out.results, !.queried = TRUE]

FindPost(json) ==
    /\ resp' = FindResponse(store, json)
    /\ UNCHANGED <<store, reqlog, call>>

-----------------------------------------------------------------------------
(* GET /find2 *)

Find2Response_NoCheck(st, hash_param) ==
    [NoResponse EXCEPT !.op = "find2", !.status = 200, !.h = hash_param,
                       !.results = [i \in DOMAIN FilterByHash(st, hash_param.value) |->
                                      Render(FilterByHash(st, hash_param.value)[i])],
                       !.queried = TRUE]

\* Find2Resource.get
Find2Response(st, hash_param) ==
    IF ~hash_param.present \/ hash_param.value = ""
    THEN [NoResponse EXCEPT !.op = "find2", !.status = 400, !.h = hash_param,
                            !.error = "Hash parameter is required"]
    ELSE LET incidents == FilterByHash(st, hash_param.value)
         IN  [NoResponse EXCEPT !.op = "find2", !.status = 200, !.h = hash_param,
                                !.results = [i \in DOMAIN incidents |->
                                               Render(incidents[i])],
                                !.queried = TRUE]

\* The h parameters tried: none, the empty string, a fingerprint nothing has,
\* and for every request recorded so far its fingerprint, a proper prefix of
\* it (the headers part), a proper suffix of it (the body part), and the
\* fingerprint with the header names' letters in upper case
Find2Args ==
    {NoArg, Arg(""), Arg("0000")}
      \cup {Arg(reqlog[i].hash) : i \in DOMAIN reqlog}
      \cup {Arg(JsonDumps(LowerHeaders(reqlog[i].headers), TRUE, ",", ":")) :
              i \in DOMAIN reqlog}
      \cup {Arg(create_hash(MkStr(""), BodyOrEmpty(reqlog[i].body))) :
              i \in DOMAIN reqlog}
      \cup {Arg(create_hash(MkDict(reqlog[i].headers), BodyOrEmpty(reqlog[i].body))) :
              i \in DOMAIN reqlog}

Find2Get(hash_param) ==
    /\ resp' = Find2Response(store, hash_param)
    /\ UNCHANGED <<store, reqlog, call>>

-----------------------------------------------------------------------------
(* The service *)

NoCall == [made |-> FALSE]

Init ==
    /\ store = <<>>
    /\ reqlog = <<>>
    /\ resp = NoResponse
    /\ call = NoCall

Next ==
    \/ \E rq \in Requests : ProblemsPost(rq[1], rq[2])
    \/ \E json \in SearchBodies : FindPost(json)
    \/ \E hash_param \in Find2Args : Find2Get(hash_param)

Spec == Init /\ [][Next]_vars

-----------------------------------------------------------------------------
(* Direct calls of create_hash, as the tests make them *)

DocAB == MkDict(<< <<"a", MkInt(1)>>, <<"b", MkInt(15)>> >>)
DocBA == MkDict(<< <<"b", MkInt(15)>>, <<"a", MkInt(1)>> >>)
DocAStr == MkDict(<< <<"a", MkStr("1")>>, <<"b", MkInt(15)>> >>)
DocDeep ==
    MkDict(<< <<"n", MkDict(<< <<"id", MkStr("abc")>>,
                               <<"b", MkList(<< MkDict(<< <<"b", MkBool(TRUE)>>,
                                                          <<"a", MkNull>> >>) >>)>> >>)>>,
              <<"a", MkNull>> >>)
DocDeepSwapped ==
    MkDict(<< <<"a", MkNull>>,
              <<"n", MkDict(<< <<"b", MkList(<< MkDict(<< <<"a", MkNull>>,
                                                          <<"b", MkBool(TRUE)>> >>) >>)>>,
                               <<"id", MkStr("abc")>> >>)>> >>)
DocList == MkDict(<< <<"a", MkList(<< MkInt(1), MkInt(2) >>)>> >>)
DocListReversed == MkDict(<< <<"a", MkList(<< MkInt(2), MkInt(1) >>)>> >>)

HashDocs ==
    {DocAB, DocBA, DocAStr, DocDeep, DocDeepSwapped, DocList, DocListReversed,
     BodyNested, BodyNestedSwapped, MkDict(<<>>)}

\* The arguments of two calls, not yet made
HashInit ==
    /\ store = <<>>
    /\ reqlog = <<>>
    /\ resp = NoResponse
    /\ call \in [made : {FALSE}, h1 : HashDocs, b1 : HashDocs,
                 h2 : HashDocs, b2 : HashDocs, f1 : {""}, f2 : {""}]

CallCreateHash ==
    /\ ~call.made
    /\ call' = [call EXCEPT !.made = TRUE,
                            !.f1 = create_hash(call.h1, call.b1),
                            !.f2 = create_hash(call.h2, call.b2)]
    /\ UNCHANGED <<store, reqlog, resp>>

HashNext == CallCreateHash

HashSpec == HashInit /\ [][HashNext]_vars

-----------------------------------------------------------------------------
(* Vocabulary of the properties *)

\* Equal as unordered trees: same keys and values at every level, list order
\* identical, whatever the order the keys were written in
RECURSIVE ContentEq(_, _)
ContentEq(u, v) ==
    /\ u.t = v.t
    /\ CASE u.t = "dict" ->
              /\ Keys(u) = Keys(v)
              /\ \A k \in Keys(u) : ContentEq(Get(u, k), Get(v, k))
         [] u.t = "list" ->
              /\ Len(u.xs) = Len(v.xs)
              /\ \A i \in DOMAIN u.xs : ContentEq(u.xs[i], v.xs[i])
         [] OTHER -> u = v

StoredHeaders(i) == JsonLoads(store[i].headers)
StoredBody(i) == JsonLoads(store[i].body)

\* The term (key, expected) is satisfied by stored incident i
TermSatisfied(i, key, expected) ==
    \/ /\ HasKey(StoredHeaders(i), key)
       /\ Str(Get(StoredHeaders(i), key)) = Str(expected)
    \/ /\ IsDict(StoredBody(i))
       /\ HasKey(StoredBody(i), key)
       /\ Str(Get(StoredBody(i), key)) = Str(expected)

\* Stored incident i satisfies at least one of the terms
SomeTermSatisfied(i, terms) ==
    \E j \in DOMAIN terms.kv : TermSatisfied(i, terms.kv[j][1], terms.kv[j][2])

\* The response's results are exactly the stored incidents in S, each once
ResultsAre(S) ==
    /\ Len(resp.results) = Cardinality(S)
    /\ \A i \in S : \E r \in DOMAIN resp.results :
          resp.results[r] = [id |-> store[i].id, headers |-> StoredHeaders(i),
                             body |-> StoredBody(i), hash |-> store[i].hash_value]

MissingHash(hash_param) == ~hash_param.present \/ hash_param.value = ""

\* The submitted header fields with their names in lower case
Lowered(items) == MkDict([j \in DOMAIN items |-> <<Lower(items[j][1]), items[j][2]>>])

-----------------------------------------------------------------------------
(* Properties *)

\* C1: two calls of create_hash whose headers mappings are equal up to the
\* order of their keys (at every level), and whose body mappings are too,
\* return the same fingerprint.
C1_KeyOrderIndependent ==
    (call.made /\ ContentEq(call.h1, call.h2) /\ ContentEq(call.b1, call.b2))
        => call.f1 = call.f2

\* C1 happens: keys permuted at the top level of the headers and at three
\* levels of the body (top, nested mapping, mapping inside a list).
C1_Witness ==
    /\ call.made
    /\ call.h1 = DocAB /\ call.h2 = DocBA
    /\ call.b1 = DocDeep /\ call.b2 = DocDeepSwapped
    /\ call.f1 = call.f2

\* C2: a search with at least one term answers with exactly the stored
\* incidents that satisfy some term, each once.
C2_SearchReturnsMatching ==
    (resp.op = "find" /\ resp.terms.kv # <<>>)
        => /\ resp.status = 200
           /\ ResultsAre({i \in DOMAIN store : SomeTermSatisfied(i, resp.terms)})

\* A search that answers at all answers with exactly the incidents that
\* satisfy some term: the searches C2 fails on are those that end in an error.
SearchAnswersAreExact ==
    (resp.op = "find" /\ resp.status = 200)
        => ResultsAre({i \in DOMAIN store : SomeTermSatisfied(i, resp.terms)})

\* C3: two stored incidents with content-equal headers and content-equal
\* bodies have the same stored fingerprint.
C3_ContentEqualSameFingerprint ==
    \A i, j \in DOMAIN store :
        (ContentEq(StoredHeaders(i), StoredHeaders(j))
            /\ ContentEq(StoredBody(i), StoredBody(j)))
        => store[i].hash_value = store[j].hash_value

\* Stored incidents with content-equal headers and content-equal mapping
\* bodies do have the same fingerprint: C3 fails on bodies that are not
\* mappings.
MappingBodiesSameFingerprint ==
    \A i, j \in DOMAIN store :
        (ContentEq(StoredHeaders(i), StoredHeaders(j))
            /\ IsDict(StoredBody(i))
            /\ ContentEq(StoredBody(i), StoredBody(j)))
        => store[i].hash_value = store[j].hash_value

\* C4: a lookup of the fingerprint a record returned answers with an incident
\* that has this fingerprint, the submitted body, and the submitted headers
\* under lower case names.
C4_RoundTrip ==
    \A i \in DOMAIN reqlog :
        (resp.op = "find2" /\ resp.h = Arg(reqlog[i].hash))
        => /\ resp.status = 200
           /\ \E r \in DOMAIN resp.results :
                /\ resp.results[r].hash = reqlog[i].hash
                /\ ContentEq(resp.results[r].body, reqlog[i].body)
                /\ ContentEq(resp.results[r].headers, Lowered(reqlog[i].headers))

\* A body that request.get_json() returns as a truthy value does come back
\* as submitted: C4 fails on the falsy bodies ([], 0, false, "", null).
KeptBodiesRoundTrip ==
    \A i \in DOMAIN reqlog :
        (resp.op = "find2" /\ resp.h = Arg(reqlog[i].hash) /\ Truthy(reqlog[i].body))
        => /\ resp.status = 200
           /\ \E r \in DOMAIN resp.results :
                /\ resp.results[r].hash = reqlog[i].hash
                /\ ContentEq(resp.results[r].body, reqlog[i].body)
                /\ ContentEq(resp.results[r].headers, Lowered(reqlog[i].headers))

\* C5: a lookup with a non-empty fingerprint succeeds with exactly the stored
\* incidents whose fingerprint is that string, none when there is none.
C5_LookupExact ==
    (resp.op = "find2" /\ ~MissingHash(resp.h))
        => /\ resp.status = 200
           /\ ResultsAre({i \in DOMAIN store : store[i].hash_value = resp.h.value})

\* C5 happens: the store holds an incident with the fingerprint looked up and
\* one without it, and one incident is returned.
C5_Witness ==
    /\ resp.op = "find2" /\ resp.status = 200
    /\ Len(store) = 2
    /\ store[1].hash_value # resp.h.value
    /\ store[2].hash_value = resp.h.value
    /\ Len(resp.results) = 1

\* C6: a lookup without a fingerprint, or with an empty one, ends in status
\* 400 with 'Hash parameter is required' and no results, and it neither
\* queries nor changes the store.
C6_MissingHashRejected ==
    [][(resp'.op = "find2" /\ MissingHash(resp'.h))
          => /\ resp'.status = 400
             /\ resp'.error = "Hash parameter is required"
             /\ resp'.results = <<>>
             /\ ~resp'.queried
             /\ store' = store]_vars

\* C6 happens: a lookup without the parameter was rejected while incidents
\* are stored.
C6_Witness ==
    /\ resp.op = "find2" /\ ~resp.h.present /\ resp.status = 400
    /\ Len(store) > 0

\* C7: a search with no terms succeeds with an empty result list.
C7_EmptyTermsEmptyResult ==
    (resp.op = "find" /\ resp.terms.kv = <<>>)
        => (resp.status = 200 /\ resp.results = <<>>)

\* C7 happens: a search with no terms on a full store.
C7_Witness ==
    /\ resp.op = "find" /\ resp.terms.kv = <<>>
    /\ Len(store) = MaxStore
    /\ resp.results = <<>>

\* C8: every stored header name is lower case, the fingerprint is that of
\* the stored (lower case) headers and the stored body, and every submitted
\* header (k, v) is stored as lower(k) with v.
C8_HeaderNormalisation ==
    \A i \in DOMAIN store :
        /\ \A k \in Keys(StoredHeaders(i)) : Lower(k) = k
        /\ store[i].hash_value = create_hash(StoredHeaders(i), StoredBody(i))
        /\ \A j \in DOMAIN reqlog[i].headers :
              LET k == reqlog[i].headers[j][1]
                  v == reqlog[i].headers[j][2]
              IN  /\ HasKey(StoredHeaders(i), Lower(k))
                  /\ Get(StoredHeaders(i), Lower(k)) = v

\* C8 happens: a request with two capitalised header names was recorded.
C8_Witness ==
    \E i \in DOMAIN store :
        /\ reqlog[i].headers = <<HdrId, HdrA>>
        /\ Keys(StoredHeaders(i)) = {"id", "x-a"}

\* C9: of two stored incidents that both satisfy some term of a search, the
\* one recorded first comes first in the search's result list.
C9_ResultsInInsertionOrder ==
    resp.op = "find"
        => \A a, b \in DOMAIN store :
              (a < b /\ SomeTermSatisfied(a, resp.terms)
                     /\ SomeTermSatisfied(b, resp.terms))
              => \E i, j \in DOMAIN resp.results :
                    /\ i < j
                    /\ resp.results[i].id = store[a].id
                    /\ resp.results[j].id = store[b].id

\* A search that answers at all lists the incidents it returns in the order
\* they were recorded in: C9 fails on the searches that end in an error.
SearchAnswersInInsertionOrder ==
    (resp.op = "find" /\ resp.status = 200)
        => \A a, b \in DOMAIN store :
              (a < b /\ SomeTermSatisfied(a, resp.terms)
                     /\ SomeTermSatisfied(b, resp.terms))
              => \E i, j \in DOMAIN resp.results :
                    /\ i < j
                    /\ resp.results[i].id = store[a].id
                    /\ resp.results[j].id = store[b].id

\* C10: a record appends exactly one incident, with an id no stored incident
\* has; a search or a lookup leaves the store as it is; a stored incident is
\* never changed or removed.
C10_AppendOnly ==
    [][/\ resp'.op \in {"find", "find2"} => store' = store
       /\ resp'.op = "problems" =>
             /\ Len(store') = Len(store) + 1
             /\ \A i \in DOMAIN store : store'[i] = store[i]
             /\ \A i \in DOMAIN store : store'[Len(store')].id # store[i].id]_vars

\* C10 happens: two incidents are stored under different ids and a search
\* has run over them.
C10_Witness ==
    /\ Len(store) = 2
    /\ store[1].id # store[2].id
    /\ resp.op = "find" /\ resp.status = 200

====
